---- MODULE Spec2Model ----
(***************************************************************************)
(* Rabin-Karp substring matching (rkgrep.c): the modular arithmetic, the   *)
(* rolling hash, the naive and the Rabin-Karp matchers, the construction   *)
(* of the document filter and the filter-accelerated matcher.              *)
(*                                                                         *)
(* Strings are sequences of byte codes 1..255 (C strings hold no NUL).     *)
(* C index k of a string is index k+1 of the sequence.  long long values   *)
(* are modelled by integers; every intermediate value of the code stays    *)
(* below 2^60 in the program and below 2^31 in the model, because products *)
(* are reduced while they are formed (MulModNat).                          *)
(***************************************************************************)
EXTENDS Integers, Sequences, FiniteSets, TLC

(* ---------------------------- bounds ---------------------------------- *)

\* longest pattern of the enumerated inputs
MaxPatLen == 2
\* longest document of the enumerated inputs
MaxDocLen == 3
\* number of readable bytes that follow the document's terminator
MaxTail == 1
\* number of sample operands next to each edge of [0, PRIME)
ArithEdge == 3

\* bytes the enumerated patterns and documents are made of: 'a', 0xFF
Alphabet == {97, 255}
\* bytes that may lie in memory after the terminator
TailBytes == {0, 97}

(* ------------------------- program constants -------------------------- *)

PRIME == 961748941

\* value of the caller's first_match_ind before the call ("no match")
NoIndex == -1
(* ------------------------- modular arithmetic ------------------------- *)

\* C's % on long long: the remainder has the sign of the dividend
CRem(x) == IF x >= 0 THEN x % PRIME ELSE 0 - ((0 - x) % PRIME)

Abs(x) == IF x >= 0 THEN x ELSE 0 - x

\* (x * y) % PRIME for x, y >= 0, formed by doubling so that no
\* intermediate value exceeds 2 * PRIME
RECURSIVE MulModNat(_, _)
MulModNat(x, y) ==
    IF y = 0 THEN 0
    ELSE LET t == MulModNat(x, y \div 2)
         IN  (((t + t) % PRIME) + (IF y % 2 = 1 THEN x % PRIME ELSE 0)) % PRIME

madd(a, b) == CRem(a + b)

\* (a + PRIME - b) is written (a - b) + PRIME: the same long long value
msub(a, b) == IF a > b THEN a - b ELSE (a - b) + PRIME

mmul(a, b) ==
    IF (a < 0) = (b < 0) \/ a = 0 \/ b = 0
    THEN MulModNat(Abs(a), Abs(b))
    ELSE 0 - MulModNat(Abs(a), Abs(b))

(* ------------------------------ inputs -------------------------------- *)

VARIABLES
    pattern,          \* the pattern, a C string
    doc,              \* the document, a C string
    tail,             \* readable bytes after the document's terminator
    charSigned,       \* whether plain char is signed in this build
    pc,               \* "main", "rk_loop", "bloom_loop", "crashed", "arith"
    caller,           \* who called rk_substring_match: "main" or "bloom"
    i,                \* loop index of the running scan
    curr_hash,        \* rolling hash of the running scan
    pattern_hash,     \* hash of the pattern
    h,                \* 256^m mod PRIME as returned by rkhash_init
    sum_matches,      \* match counter of rk_substring_match
    bf,               \* the document filter: [built, set]
    first_match_ind,  \* the callers' out-parameter cells, one per matcher
    ret,              \* the matchers' return values
    returned,         \* the matchers that have returned to main
    nextLog,          \* history: <<function, i>> of the rkhash_next calls of the running scan
    hashEqLog,        \* history: indices where curr_hash = pattern_hash in the running scan
    countLog,         \* history: indices counted as a match in the running scan
    maxRead,          \* history: highest C index of doc read by the running scan
    arg_a,            \* operands and result of the arithmetic unit
    arg_b,
    arith_ret

vars == <<pattern, doc, tail, charSigned, pc, caller, i, curr_hash,
          pattern_hash, h, sum_matches, bf, first_match_ind, ret, returned,
          nextLog, hashEqLog, countLog, maxRead, arg_a, arg_b, arith_ret>>

inputVars == <<pattern, doc, tail, charSigned>>
arithVars == <<arg_a, arg_b, arith_ret>>

\* all strings over S of length lo..hi
Strs(S, lo, hi) == UNION {[1..k -> S] : k \in lo..hi}

\* the spec's scenarios: "abc" in "abc", "ab" in "ababab", "xyz" in "abcabc",
\* "x" in "", and "!!!T" against "ZtA!!" whose first window has the
\* pattern's hash (0x21212154 + PRIME = 0x5A744121)
ExampleInputs ==
    { << <<97, 98, 99>>, <<97, 98, 99>> >>,
      << <<97, 98>>, <<97, 98, 97, 98, 97, 98>> >>,
      << <<120, 121, 122>>, <<97, 98, 99, 97, 98, 99>> >>,
      << <<120>>, <<>> >>,
      << <<33, 33, 33, 84>>, <<90, 116, 65, 33, 33>> >> }

Inputs ==
    (Strs(Alphabet, 1, MaxPatLen) \X Strs(Alphabet, 0, MaxDocLen))
        \cup ExampleInputs

\* memory as the scans see it: the document, its terminator, what follows
Mem == doc \o <<0>> \o tail

\* doc[k] in C; defined for k < Len(Mem)
DocAt(k) == Mem[k + 1]

\* conversion of a char to long long in this build
CharVal(c) == IF charSigned /\ c >= 128 THEN c - 256 ELSE c

(* ----------------------------- rolling hash --------------------------- *)

\* the loop of rkhash_init, k = i + 1 running from m down to 1
RECURSIVE rkhash_init_loop(_, _, _, _)
rkhash_init_loop(charbuf, k, hh, sum) ==
    IF k < 1 THEN [sum |-> sum, h |-> hh]
    ELSE rkhash_init_loop(charbuf, k - 1, mmul(hh, 256),
                          madd(mmul(hh, CharVal(charbuf[k])), sum))

\* returns the hash and, through *h, 256^m
rkhash_init(charbuf, m) == rkhash_init_loop(charbuf, m, 1, 0)

rkhash_next(cur, hh, leftmost, rightmost) ==
    madd(msub(mmul(cur, 256), mmul(CharVal(leftmost), hh)), CharVal(rightmost))

\* the m bytes of memory from C index k
Window(k, m) == [j \in 1..m |-> Mem[k + j]]

(* ----------------------------- naive matcher -------------------------- *)

\* the inner loop: 1 if pattern equals doc[k..k+m), comparing byte by byte
RECURSIVE equals_loop(_, _, _, _)
equals_loop(p, d, k, j) ==
    IF j >= Len(p) THEN 1
    ELSE IF p[j + 1] # d[k + j + 1] THEN 0
    ELSE equals_loop(p, d, k, j + 1)

\* the outer loop, int arithmetic: for (i = 0; i < doc_len - m; i++)
RECURSIVE naive_loop(_, _, _, _, _)
naive_loop(p, d, k, match_count, first) ==
    IF ~(k < Len(d) - Len(p)) THEN [count |-> match_count, first |-> first]
    ELSE IF equals_loop(p, d, k, 0) = 1
         THEN naive_loop(p, d, k + 1, match_count + 1,
                         IF match_count = 0 THEN k ELSE first)
         ELSE naive_loop(p, d, k + 1, match_count, first)

naive_substring_match(p, d, first) == naive_loop(p, d, 0, 0, first)

(* ------------------------------- Init --------------------------------- *)

Matchers == {"naive", "rk", "bloom"}

NoLocals ==
    /\ i = 0 /\ curr_hash = 0 /\ pattern_hash = 0 /\ h = 0
    /\ sum_matches = 0 /\ caller = "main"
    /\ nextLog = {} /\ hashEqLog = {} /\ countLog = {} /\ maxRead = -1

\* the state before main calls a matcher
Init ==
    /\ \E inp \in Inputs : pattern = inp[1] /\ doc = inp[2]
    /\ tail \in Strs(TailBytes, 0, MaxTail)
    /\ charSigned \in BOOLEAN
    /\ pc = "main"
    /\ NoLocals
    /\ bf = [built |-> FALSE, set |-> {}]
    /\ first_match_ind = [f \in Matchers |-> NoIndex]
    /\ ret = [f \in Matchers |-> 0]
    /\ returned = {}
    /\ arg_a = 0 /\ arg_b = 0 /\ arith_ret = <<"none", 0>>

\* the locals of a returned function are gone
PopLocals ==
    /\ i' = 0 /\ curr_hash' = 0 /\ pattern_hash' = 0 /\ h' = 0
    /\ sum_matches' = 0 /\ caller' = "main"
    /\ nextLog' = {} /\ hashEqLog' = {} /\ countLog' = {} /\ maxRead' = -1

\* i < strlen(doc) - m + c, evaluated in size_t: when strlen(doc) + c < m
\* the right-hand side wraps to 2^64 - (m - strlen(doc) - c), above any int i
SizeLess(k, n, m, c) == IF n + c >= m THEN k < (n - m) + c ELSE TRUE

(* --------------------------- naive matcher ---------------------------- *)

\* main calls naive_substring_match(pattern, doc, &first_match_ind)
NaiveCall ==
    /\ pc = "main"
    /\ "naive" \notin returned
    /\ LET r == naive_substring_match(pattern, doc, first_match_ind["naive"])
       IN  /\ ret' = [ret EXCEPT !["naive"] = r.count]
           /\ first_match_ind' = [first_match_ind EXCEPT !["naive"] = r.first]
    /\ returned' = returned \cup {"naive"}
    /\ UNCHANGED <<inputVars, arithVars, pc, caller, i, curr_hash,
                   pattern_hash, h, sum_matches, bf, nextLog, hashEqLog,
                   countLog, maxRead>>

(* -------------------------- rk_substring_match ------------------------ *)

\* lines 112-119: the two rkhash_init calls; rkhash_init(doc, m, &h) reads
\* doc[0..m) whatever the document's length, and faults past the mapping
RkBegin(c) ==
    LET m == Len(pattern) IN
    /\ caller' = c
    /\ hashEqLog' = {} /\ countLog' = {} /\ nextLog' = {}
    /\ sum_matches' = 0
    /\ i' = 0
    /\ IF m > Len(Mem)
       THEN /\ pc' = "crashed"
            /\ maxRead' = Len(Mem) - 1
            /\ UNCHANGED <<curr_hash, h, pattern_hash>>
       ELSE /\ pc' = "rk_loop"
            /\ maxRead' = m - 1
            /\ curr_hash' = rkhash_init(Mem, m).sum
            /\ h' = rkhash_init(Mem, m).h
            /\ pattern_hash' = rkhash_init(pattern, m).sum

\* main calls rk_substring_match(pattern, doc, &first_match_ind)
RkCall ==
    /\ pc = "main"
    /\ "rk" \notin returned
    /\ RkBegin("main")
    /\ UNCHANGED <<inputVars, arithVars, bf, first_match_ind, ret, returned>>

\* the cell first_match_ind points to in the running call
Cell == IF caller = "main" THEN "rk" ELSE "bloom"

\* hash equality taken for a match
ver_loop_skipped(p, k, j) == 1

\* lines 125-131: the verification loop, j from i to i + m - 1
RECURSIVE ver_loop(_, _, _)
ver_loop(p, k, j) ==
    IF ~(j < k + Len(p)) THEN 1
    ELSE IF p[(j - k) + 1] # DocAt(j) THEN 0
    ELSE ver_loop(p, k, j + 1)

\* lines 122-142: one iteration of the scan
RkIter ==
    LET m   == Len(pattern)
        hit == curr_hash = pattern_hash
        ver == IF hit THEN ver_loop(pattern, i, i) ELSE 0
    IN
    /\ pc = "rk_loop"
    /\ SizeLess(i, Len(doc), m, 0)
    /\ hashEqLog' = IF hit THEN hashEqLog \cup {i} ELSE hashEqLog
    /\ sum_matches' = IF ver = 1 THEN sum_matches + 1 ELSE sum_matches
    /\ countLog' = IF ver = 1 THEN countLog \cup {i} ELSE countLog
    /\ first_match_ind' = IF ver = 1
                          THEN [first_match_ind EXCEPT ![Cell] = i]
                          ELSE first_match_ind
    /\ nextLog' = nextLog \cup {<<"rk_substring_match", i>>}
    /\ IF i + m >= Len(Mem)
       THEN /\ pc' = "crashed"
            /\ UNCHANGED <<curr_hash, i, maxRead>>
       ELSE /\ curr_hash' = rkhash_next(curr_hash, h, DocAt(i), DocAt(i + m))
            /\ i' = i + 1
            /\ maxRead' = IF i + m > maxRead THEN i + m ELSE maxRead
            /\ pc' = pc
    /\ UNCHANGED <<inputVars, arithVars, caller, pattern_hash, h, bf, ret,
                   returned>>

\* line 144, back in main
RkReturn ==
    /\ pc = "rk_loop"
    /\ caller = "main"
    /\ ~SizeLess(i, Len(doc), Len(pattern), 0)
    /\ ret' = [ret EXCEPT !["rk"] = sum_matches]
    /\ returned' = returned \cup {"rk"}
    /\ pc' = "main"
    /\ PopLocals
    /\ UNCHANGED <<inputVars, arithVars, bf, first_match_ind>>

(* --------------------------- the filter (bloom.h) --------------------- *)

\* an empty filter; the capacity does not enter the membership contract
bloom_init(bloom_size) == {}

\* unconditional, idempotent insertion
bloom_add(f, x) == f \cup {x}

\* no false negative; fp is the filter's answer for a value never inserted
bloom_query(f, x, fp) == x \in f \/ fp

(* --------------------------- rk_create_doc_bloom ---------------------- *)

\* lines 156-159: main calls rk_create_doc_bloom(strlen(pattern), doc, size)
BloomCreateCall ==
    LET m == Len(pattern) IN
    /\ pc = "main"
    /\ ~bf.built
    /\ bf' = [built |-> FALSE, set |-> bloom_init(MaxDocLen + 1)]
    /\ i' = 0
    /\ nextLog' = {}
    /\ IF m > Len(Mem)
       THEN /\ pc' = "crashed"
            /\ maxRead' = Len(Mem) - 1
            /\ UNCHANGED <<curr_hash, h>>
       ELSE /\ pc' = "bloom_loop"
            /\ maxRead' = m - 1
            /\ curr_hash' = rkhash_init(Mem, m).sum
            /\ h' = rkhash_init(Mem, m).h
    /\ UNCHANGED <<inputVars, arithVars, caller, pattern_hash, sum_matches,
                   first_match_ind, ret, returned, hashEqLog, countLog>>

\* lines 160-165: one iteration, the insertion and then the advance
BloomCreateIter ==
    LET m == Len(pattern) IN
    /\ pc = "bloom_loop"
    /\ SizeLess(i, Len(doc), m, 1)
    /\ bf' = [bf EXCEPT !.set = bloom_add(bf.set, curr_hash)]
    /\ nextLog' = nextLog \cup {<<"rk_create_doc_bloom", i>>}
    /\ IF i + m >= Len(Mem)
       THEN /\ pc' = "crashed"
            /\ UNCHANGED <<curr_hash, i, maxRead>>
       ELSE /\ curr_hash' = rkhash_next(curr_hash, h, DocAt(i), DocAt(i + m))
            /\ i' = i + 1
            /\ maxRead' = IF i + m > maxRead THEN i + m ELSE maxRead
            /\ pc' = pc
    /\ UNCHANGED <<inputVars, arithVars, caller, pattern_hash, h,
                   sum_matches, first_match_ind, ret, returned, hashEqLog,
                   countLog>>

\* line 167
BloomCreateReturn ==
    /\ pc = "bloom_loop"
    /\ ~SizeLess(i, Len(doc), Len(pattern), 1)
    /\ bf' = [bf EXCEPT !.built = TRUE]
    /\ pc' = "main"
    /\ PopLocals
    /\ UNCHANGED <<inputVars, arithVars, first_match_ind, ret, returned>>

(* ----------------------- rk_substring_match_using_bloom --------------- *)

\* values a caller may find in the return register besides the callee's
GarbageInts == {-1, 0, 1}

\* the value of a call that flows off the end of the function after
\* rk_substring_match returned v (lines 185-189: no return statement)
Indeterminate(v) == {v} \cup GarbageInts

\* lines 181-185: the filter reports present and the exact matcher is called
BloomMatchPresent ==
    /\ pc = "main"
    /\ bf.built
    /\ "bloom" \notin returned
    /\ \E fp \in BOOLEAN :
          bloom_query(bf.set, rkhash_init(pattern, Len(pattern)).sum, fp)
    /\ RkBegin("bloom")
    /\ UNCHANGED <<inputVars, arithVars, bf, first_match_ind, ret, returned>>

\* lines 181-187: the filter reports absent
BloomMatchAbsent ==
    /\ pc = "main"
    /\ bf.built
    /\ "bloom" \notin returned
    /\ \E fp \in BOOLEAN :
          ~bloom_query(bf.set, rkhash_init(pattern, Len(pattern)).sum, fp)
    /\ ret' = [ret EXCEPT !["bloom"] = 0]
    /\ returned' = returned \cup {"bloom"}
    /\ UNCHANGED <<inputVars, arithVars, pc, caller, i, curr_hash,
                   pattern_hash, h, sum_matches, bf, first_match_ind,
                   nextLog, hashEqLog, countLog, maxRead>>

\* lines 185-189: rk_substring_match returns into the function, which ends
\* without a return statement
BloomMatchReturn ==
    /\ pc = "rk_loop"
    /\ caller = "bloom"
    /\ ~SizeLess(i, Len(doc), Len(pattern), 0)
    /\ \E v \in Indeterminate(sum_matches) :
          ret' = [ret EXCEPT !["bloom"] = v]
    /\ returned' = returned \cup {"bloom"}
    /\ pc' = "main"
    /\ PopLocals
    /\ UNCHANGED <<inputVars, arithVars, bf, first_match_ind>>

(* ------------------------------ Spec ---------------------------------- *)

Next ==
    \/ NaiveCall
    \/ RkCall
    \/ RkIter
    \/ RkReturn
    \/ BloomCreateCall
    \/ BloomCreateIter
    \/ BloomCreateReturn
    \/ BloomMatchPresent
    \/ BloomMatchAbsent
    \/ BloomMatchReturn

Spec == Init /\ [][Next]_vars

(* --------------------- the arithmetic unit on its own ----------------- *)

\* operands at both edges of [0, PRIME)
ArithSamples == (0..ArithEdge) \cup ((PRIME - 1 - ArithEdge)..(PRIME - 1))

InitArith ==
    /\ pattern = <<97>> /\ doc = <<>> /\ tail = <<>>
    /\ charSigned \in BOOLEAN
    /\ pc = "arith"
    /\ NoLocals
    /\ bf = [built |-> FALSE, set |-> {}]
    /\ first_match_ind = [f \in Matchers |-> NoIndex]
    /\ ret = [f \in Matchers |-> 0]
    /\ returned = {}
    /\ arg_a \in ArithSamples /\ arg_b \in ArithSamples
    /\ arith_ret = <<"none", 0>>

ArithFrame ==
    UNCHANGED <<inputVars, pc, caller, i, curr_hash, pattern_hash, h,
                sum_matches, bf, first_match_ind, ret, returned, nextLog,
                hashEqLog, countLog, maxRead, arg_a, arg_b>>

MaddCall == pc = "arith" /\ arith_ret' = <<"madd", madd(arg_a, arg_b)>> /\ ArithFrame

MsubCall == pc = "arith" /\ arith_ret' = <<"msub", msub(arg_a, arg_b)>> /\ ArithFrame

MmulCall == pc = "arith" /\ arith_ret' = <<"mmul", mmul(arg_a, arg_b)>> /\ ArithFrame

NextArith == MaddCall \/ MsubCall \/ MmulCall

SpecArith == InitArith /\ [][NextArith]_vars

(* ============================ properties ============================== *)

\* start indices 0 <= k <= n - m at which doc[k..k+m) equals the pattern
Occurrences ==
    {k \in 0..(Len(doc) - Len(pattern)) :
        SubSeq(doc, k + 1, k + Len(pattern)) = pattern}

Smallest(S) == CHOOSE x \in S : \A y \in S : x <= y

\* C1: once both have returned, rk_substring_match and naive_substring_match
\* report the same match count and the same first match index.
C1_Agreement ==
    ("naive" \in returned /\ "rk" \in returned)
        => /\ ret["rk"] = ret["naive"]
           /\ first_match_ind["rk"] = first_match_ind["naive"]

\* C2: for a document at least as long as the pattern, the count returned by
\* rk_substring_match is the number of start indices 0..n-m, the last window
\* included, at which the document equals the pattern byte for byte.
C2_CountsEveryWindow ==
    ("rk" \in returned /\ Len(doc) >= Len(pattern))
        => ret["rk"] = Cardinality(Occurrences)

\* C3: when rk_substring_match has found a match, the index stored through
\* first_match_ind is the smallest start index at which the pattern occurs.
C3_FirstIsSmallest ==
    ("rk" \in returned /\ ret["rk"] >= 1)
        => first_match_ind["rk"] = Smallest(Occurrences)

\* C4: with a filter built from the document for the pattern's length,
\* rk_substring_match_using_bloom returns the count and first index that
\* rk_substring_match returns.
C4_FilteredEqualsExact ==
    ("bloom" \in returned /\ "rk" \in returned)
        => /\ ret["bloom"] = ret["rk"]
           /\ first_match_ind["bloom"] = first_match_ind["rk"]

\* C5: when the pattern occurs in the document, the hash rkhash_init gives
\* the pattern is among the values rk_create_doc_bloom inserted.
C5_NoFalseNegative ==
    (bf.built /\ Occurrences # {})
        => rkhash_init(pattern, Len(pattern)).sum \in bf.set

\* C6: when the document is shorter than the pattern, rk_substring_match
\* performs no scan iteration, reads nothing past the document's terminator,
\* and returns 0 leaving first_match_ind alone.
C6_ShortDocReturnsAtOnce ==
    Len(doc) < Len(pattern)
        => /\ pc = "rk_loop" => (i = 0 /\ nextLog = {} /\ maxRead <= Len(doc))
           /\ "rk" \in returned => ret["rk"] = 0
           /\ first_match_ind["rk"] = NoIndex

\* C7: at every window start i <= n - m of a scan, the hash obtained from
\* rkhash_init on doc[0..m) by i applications of rkhash_next equals the hash
\* rkhash_init computes on doc[i..i+m).
C7_RollingEqualsInit ==
    (pc \in {"rk_loop", "bloom_loop"} /\ i <= Len(doc) - Len(pattern))
        => curr_hash = rkhash_init(Window(i, Len(pattern)), Len(pattern)).sum

\* C8: for a, b in [0, PRIME), msub(a, b) is (a - b) mod PRIME, a value in
\* [0, PRIME), also when a = b.
C8_MsubInRange ==
    arith_ret[1] = "msub"
        => /\ arith_ret[2] = (arg_a - arg_b) % PRIME
           /\ arith_ret[2] \in 0..(PRIME - 1)

\* C9: in rk_substring_match and in rk_create_doc_bloom, rkhash_next is
\* called at loop index i only when i + m < len(doc).
C9_NextOnlyInsideDoc ==
    \A e \in nextLog : e[2] + Len(pattern) < Len(doc)

\* C10: rk_substring_match counts index k only when the byte comparison found
\* the pattern equal to the m bytes at doc + k; a window that only shares the
\* pattern's hash is not counted.
C10_CountOnlyVerified ==
    /\ \A k \in countLog : Window(k, Len(pattern)) = pattern
    /\ sum_matches = Cardinality(countLog)

\* a scan has passed a window whose hash is the pattern's and whose bytes
\* are not, without counting it
C10_Witness ==
    /\ pc = "rk_loop"
    /\ \E k \in hashEqLog :
          /\ k < i
          /\ Window(k, Len(pattern)) # pattern
          /\ k \notin countLog

====
